---- MODULE Spec2Model ----
(***************************************************************************)
(* Status GPS - MIX (src/App.py): the source refresher (conditional        *)
(* download by ETag / Last-Modified, local-path copy), the status          *)
(* classifier and the last-known-position resolution.                      *)
(*                                                                         *)
(* Strings that the code parses are modelled by their parts: a locator is  *)
(* a record of the five parts urlsplit returns, a file body is a sequence  *)
(* of bytes.  Optional values (a file that may not exist) are sequences of *)
(* length 0 or 1.                                                          *)
(***************************************************************************)
EXTENDS Integers, Sequences, FiniteSets, TLC

VARIABLES
    config,      \* the raw DATA_URL value (secret / environment / default)
    remote,      \* what the HTTP server currently serves for the locator
    dest,        \* ARQUIVO on disk: <<>> (missing) or <<bytes>>
    metaFile,    \* META on disk: <<>> (missing) or <<dict>>
    clock,       \* datetime.now(), one tick per refresh call
    last,        \* record of the most recent atualizar_por_metadados call
    fresh,       \* no environment step happened since the most recent call
    changes,     \* number of environment steps so far
    dias,        \* one cell of the "Dias MIX" column
    statusMix,   \* the "Status MIX" cell computed for it
    dados,       \* the DadosGPS sheet: [cols, rows]
    posicoes,    \* <<>> before preparar_posicoes ran, <<result rows>> after
    df,          \* the merged status table the page is built from
    session_state, \* <<>> without the key pie_filter, else <<its value>>
    f_conc,      \* the selection of the "Concessao" multiselect
    f_recurso,   \* the selection of the "Recurso" multiselect
    clicked,     \* the button whose click triggered the latest script run
    grid_df,     \* the table (and export) the latest run showed, <<>> if none
    css          \* the filter the latest css_with_active_filter marked active

refreshVars == <<config, remote, dest, metaFile, clock, last, fresh, changes>>
classVars == <<dias, statusMix>>
posVars == <<dados, posicoes>>
uiVars == <<df, session_state, f_conc, f_recurso, clicked, grid_df, css>>
vars == <<refreshVars, classVars, posVars, uiVars>>

\* ---------------------------------------------------------------- bounds
MaxCalls == 2
MaxChanges == 1
MaxAge == 32
MaxRows == 2
MaxVehicles == 2

\* ------------------------------------------------------------- optionals
None == <<>>
Some(x) == <<x>>
IsSome(o) == o # <<>>
Get(o) == o[1]


\* -------------------------------------------------------------- locators
\* A locator string, as urlsplit sees it: scheme://netloc/path?query#fragment.
\* The query is the sequence of its key=value pairs.
Url(s, n, p, q) == [scheme |-> s, netloc |-> n, path |-> p, query |-> q, fragment |-> ""]
EmptyUrl == Url("", "", "", <<>>)

ARQUIVO == Url("", "", "STATUS_GPS.xlsx", <<>>)
DATA_URL_DEFAULT ==
    Url("https", "grupoecorodovias-my.sharepoint.com",
        "/:x:/g/personal/josmar_silva_ecovias_com_br/ES2Gw9BPByRMkK9prUwHzkkBUFcNUIfCWXN-sQfaaElF5A",
        <<>>)

\* A raw configuration value: the locator text with the characters around it.
Raw(q, u) == [quote |-> q, text |-> u]

_strip_quotes(raw) == raw.text

\* parse_qsl drops pairs with a blank value; dict() keeps one entry per key, at
\* the position of the key's first occurrence, holding its last value.
RECURSIVE DictOfPairs(_, _)
DictOfPairs(pairs, acc) ==
    IF pairs = <<>> THEN acc
    ELSE LET kv == Head(pairs)
             at == {i \in 1..Len(acc) : acc[i][1] = kv[1]}
         IN IF kv[2] = "" THEN DictOfPairs(Tail(pairs), acc)
            ELSE IF at = {} THEN DictOfPairs(Tail(pairs), Append(acc, kv))
            ELSE DictOfPairs(Tail(pairs),
                             [i \in 1..Len(acc) |-> IF i \in at THEN kv ELSE acc[i]])

HasKey(d, k) == \E i \in 1..Len(d) : d[i][1] = k

_ensure_download_param(url) ==
    LET q == DictOfPairs(url.query, <<>>)
        q2 == IF HasKey(q, "download") THEN q ELSE Append(q, <<"download", "1">>)
    IN [url EXCEPT !.query = q2]

get_data_url(raw) ==
    LET url == _strip_quotes(raw)
    IN IF url # EmptyUrl THEN _ensure_download_param(url) ELSE EmptyUrl

Lower(s) ==
    CASE s = "HTTPS" -> "https"
      [] s = "HTTP" -> "http"
      [] OTHER -> s

_is_http(url) == Lower(url.scheme) \in {"http", "https"}

\* ------------------------------------------------------------ file bodies
Xlsx1 == <<"P", "K", "3", "4", "a">>
Xlsx2 == <<"P", "K", "3", "4", "b", "c">>
HtmlLogin == <<"<", "!", "D", "O", "C", "T", "Y", "P", "E">>
Bodies == {Xlsx1, Xlsx2, HtmlLogin}

Take(s, n) == SubSeq(s, 1, IF Len(s) < n THEN Len(s) ELSE n)
StartsWith(s, p) == Len(s) >= Len(p) /\ SubSeq(s, 1, Len(p)) = p

HtmlDoctype == <<"<", "!", "D", "O">>
BeginsWithDoctype(body) == StartsWith(body, HtmlDoctype)

\* ------------------------------------------------------- local file system
\* The files other than ARQUIVO and META.  A file name is the locator text
\* that names it, so "/data/export.xlsx?download=1" is a name like any other.
LocalBase == Url("", "", "/data/base.xlsx", <<>>)
LocalOdd == Url("", "", "/data/export.xlsx", << <<"download", "1">> >>)
LocalGone == Url("", "", "/data/none.xlsx", <<>>)
LocalFiles == {LocalBase, LocalOdd}
FileBytes(name) == IF name = LocalBase THEN Xlsx1 ELSE Xlsx2

PathExists(p, d) == p \in LocalFiles \/ (p = ARQUIVO /\ IsSome(d))
ReadPath(p, d) == IF p = ARQUIVO THEN Get(d) ELSE FileBytes(p)

\* --------------------------------------------------------------- metadata
NoTok == "<none>"
Absent == "<absent>"
Truthy(v) == v \notin {NoTok, Absent, ""}

EmptyMeta ==
    [etag |-> Absent, last_modified |-> Absent, downloaded_at |-> -1,
     source |-> None, size |-> -1, local_copy_mtime |-> -1]

_load_meta(m) == IF IsSome(m) THEN Get(m) ELSE EmptyMeta
_save_meta(meta) == Some(meta)

\* ----------------------------------------------------------------- network
SheetMime == "application/vnd.openxmlformats-officedocument.spreadsheetml.sheet"
OctetMime == "application/octet-stream"
ETags == {NoTok, "v1", "v2"}
LastMods == {NoTok, "d1"}

\* What a GET of the locator may answer: a Content-Type header and a body.
Payloads ==
    { [ctype |-> SheetMime, body |-> Xlsx1],
      [ctype |-> OctetMime, body |-> Xlsx2],
      [ctype |-> "text/html", body |-> HtmlLogin],
      [ctype |-> SheetMime, body |-> HtmlLogin] }

Remotes ==
    { [etag |-> e, last_modified |-> l, ctype |-> p.ctype, body |-> p.body] :
        e \in ETags, l \in LastMods, p \in Payloads }

\* What the network does to one refresh call: the HEAD request, the ranged GET
\* that replaces it, and the full GET.
\*   head:  "ok" | "fail" (an exception, a status >= 400 or no headers)
\*   range: "ok" | "status" (an answer with an error status) | "raise" | "unused"
\*   get:   "ok" | "neterr" (an exception) | "http" (raise_for_status raises)
NetOutcomes ==
    { [head |-> "ok", range |-> "unused", get |-> g] : g \in {"ok", "neterr", "http"} }
    \cup [head : {"fail"}, range : {"ok", "status", "raise"}, get : {"ok", "neterr", "http"}]

NetUp == [head |-> "ok", range |-> "unused", get |-> "ok"]

\* _remote_head: [raised, etag, last_modified, requests]
_remote_head(r, n) ==
    IF n.head = "ok"
    THEN [raised |-> FALSE, etag |-> r.etag, last_modified |-> r.last_modified, requests |-> 1]
    ELSE IF n.range = "raise"
    THEN [raised |-> TRUE, etag |-> NoTok, last_modified |-> NoTok, requests |-> 2]
    ELSE IF n.range = "status"
    THEN [raised |-> FALSE, etag |-> NoTok, last_modified |-> NoTok, requests |-> 2]
    ELSE [raised |-> FALSE, etag |-> r.etag, last_modified |-> r.last_modified, requests |-> 2]

ContainsSheetMime(ctype) == ctype = SheetMime

_content_looks_excel(ctype, first) ==
    IF ContainsSheetMime(ctype) THEN TRUE
    ELSE StartsWith(first, <<"P", "K">>)

\* ------------------------------------------------------ download_if_changed
\* The outcome of one call: what it returned or raised, the files after it, and
\* the requests it issued (probes: HEAD and ranged GET; gets: full GET).
Returned(modo, d, m, probes, gets, wrote) ==
    [raised |-> FALSE, err |-> "", modo |-> modo, dest |-> d, meta |-> m,
     probes |-> probes, gets |-> gets, wrote |-> wrote]
Raised(err, d, m, probes, gets) ==
    [raised |-> TRUE, err |-> err, modo |-> "", dest |-> d, meta |-> m,
     probes |-> probes, gets |-> gets, wrote |-> FALSE]

CopyLocal(url, d, m, now) ==
    IF ~PathExists(url, d)
    THEN Raised("Fonte local nao encontrada", d, m, 0, 0)
    ELSE IF url # ARQUIVO
    THEN Returned("copiada de caminho local",
                  Some(ReadPath(url, d)),
                  _save_meta([EmptyMeta EXCEPT !.source = Some(url), !.local_copy_mtime = now]),
                  0, 0, TRUE)
    ELSE Returned("arquivo ja e a propria fonte", d, m, 0, 0, FALSE)

\* A comparison written the wrong way round.
SameETagInverted(etag_prev, etag_new) ==
    Truthy(etag_prev) /\ Truthy(etag_new) /\ etag_prev # etag_new

SameETag(etag_prev, etag_new) == Truthy(etag_prev) /\ Truthy(etag_new) /\ etag_prev = etag_new
SameLastMod(lastmod_prev, lastmod_new) ==
    Truthy(lastmod_prev) /\ Truthy(lastmod_new) /\ lastmod_prev = lastmod_new

\* The body written to the destination before it is validated.
FetchBodyWritesFirst(url, d, m, meta, h, r, n, now) ==
    IF n.get = "neterr" THEN Raised("ConnectionError", d, m, h.requests, 1)
    ELSE IF n.get = "http" THEN Raised("HTTPError", d, m, h.requests, 1)
    ELSE IF ~_content_looks_excel(r.ctype, Take(r.body, 4))
    THEN Raised("O link nao retornou um arquivo .xlsx", Some(r.body), m, h.requests, 1)
    ELSE Returned("baixada por URL",
                  Some(r.body),
                  _save_meta([meta EXCEPT !.etag = h.etag,
                                          !.last_modified = h.last_modified,
                                          !.downloaded_at = now,
                                          !.source = Some(url),
                                          !.size = Len(r.body)]),
                  h.requests, 1, TRUE)

FetchBody(url, d, m, meta, h, r, n, now) ==
    IF n.get = "neterr" THEN Raised("ConnectionError", d, m, h.requests, 1)
    ELSE IF n.get = "http" THEN Raised("HTTPError", d, m, h.requests, 1)
    ELSE IF ~_content_looks_excel(r.ctype, Take(r.body, 4))
    THEN Raised("O link nao retornou um arquivo .xlsx", d, m, h.requests, 1)
    ELSE Returned("baixada por URL",
                  Some(r.body),
                  _save_meta([meta EXCEPT !.etag = h.etag,
                                          !.last_modified = h.last_modified,
                                          !.downloaded_at = now,
                                          !.source = Some(url),
                                          !.size = Len(r.body)]),
                  h.requests, 1, TRUE)

download_if_changed(url, d, m, r, n, now) ==
    IF ~_is_http(url) THEN CopyLocal(url, d, m, now)
    ELSE LET meta == _load_meta(m)
             h == _remote_head(r, n)
         IN IF h.raised THEN Raised("ConnectionError", d, m, h.requests, 0)
            ELSE IF SameETag(meta.etag, h.etag)
            THEN Returned("nao modificado (ETag)", d, m, h.requests, 0, FALSE)
            ELSE IF SameLastMod(meta.last_modified, h.last_modified)
            THEN Returned("nao modificado (Last-Modified)", d, m, h.requests, 0, FALSE)
            ELSE FetchBody(url, d, m, meta, h, r, n, now)

NotModified(modo) == modo \in {"nao modificado (ETag)", "nao modificado (Last-Modified)"}

\* -------------------------------------------------- atualizar_por_metadados
Report(o, changed, msg) ==
    [changed |-> changed, msg |-> msg, raised |-> o.raised, modo |-> o.modo,
     dest |-> o.dest, meta |-> o.meta, probes |-> o.probes, gets |-> o.gets,
     wrote |-> o.wrote]

atualizar_por_metadados(url, force, d, m, r, n, now) ==
    IF url = EmptyUrl
    THEN Report(Returned("", d, m, 0, 0, FALSE), FALSE, <<"Sem DATA_URL configurada.">>)
    ELSE LET o == download_if_changed(url, d, m, r, n, now)
         IN IF o.raised THEN Report(o, FALSE, <<"Falha ao atualizar: ", o.err>>)
            ELSE IF force \/ ~IsSome(d) THEN Report(o, TRUE, <<"Base ", o.modo, ".">>)
            ELSE IF NotModified(o.modo)
            THEN Report(o, FALSE, <<"Base ja esta atualizada (metadados iguais).">>)
            ELSE Report(o, TRUE, <<"Base ", o.modo, ".">>)

\* ------------------------------------------------------------ call records
\* What is remembered of a refresh call.  probe: how _remote_head ended
\* ("none" when it was not called); get: how the full GET ended ("none" when it
\* was not issued); follows: the call came right after another call, with no
\* step of the environment between the two, and then prevForce and prevGets
\* are that call's force flag and number of full GETs.
ProbeOf(n, probes) ==
    IF probes = 0 THEN "none"
    ELSE IF n.head = "ok" THEN "head"
    ELSE n.range

NoCall ==
    [op |-> "none", force |-> FALSE, probe |-> "none", get |-> "none",
     changed |-> FALSE, msg |-> <<>>, raised |-> FALSE, modo |-> "",
     probes |-> 0, gets |-> 0, wrote |-> FALSE,
     follows |-> FALSE, prevForce |-> FALSE, prevGets |-> 0]

CallRecord(op, force, n, rep) ==
    [op |-> op, force |-> force,
     probe |-> ProbeOf(n, rep.probes),
     get |-> IF rep.gets = 0 THEN "none" ELSE n.get,
     changed |-> rep.changed, msg |-> rep.msg, raised |-> rep.raised, modo |-> rep.modo,
     probes |-> rep.probes, gets |-> rep.gets, wrote |-> rep.wrote,
     follows |-> fresh /\ last.op # "none",
     prevForce |-> fresh /\ last.op # "none" /\ last.force,
     prevGets |-> IF fresh /\ last.op # "none" THEN last.gets ELSE 0]

\* ------------------------------------------------------------ sheet cells
\* A spreadsheet cell: empty, a number or a text.  Numbers are in tenths, so
\* that 2.9 days is Num(29).
Null == [k |-> "null", n |-> 0, s |-> ""]
Num(n) == [k |-> "num", n |-> n, s |-> ""]
Text(s) == [k |-> "text", n |-> 0, s |-> s]
NoColumn == [k |-> "nocol", n |-> 0, s |-> ""]
Days(n) == n * 10

\* float(text), for the texts the sheets of the model hold.
ParseNumber(s) ==
    CASE s = "2" -> Num(Days(2))
      [] s = "2.9" -> Num(29)
      [] s = "-23.5" -> Num(-235)
      [] OTHER -> Null

\* pd.to_numeric(errors="coerce")
to_numeric(c) ==
    CASE c.k = "num" -> c
      [] c.k = "text" -> ParseNumber(c.s)
      [] OTHER -> Null

\* ------------------------------------------------ classificar_status_series
ORDEM_STATUS == <<"CRITICO", "ATENCAO", "OK", "SEM DADO">>

Between(x, lo, hi) == lo <= x /\ x <= hi

\* The bands with their lower bounds left out of the comparison.
classificar_status_series_strict(c) ==
    LET num == to_numeric(c)
        dias_num == IF num.k = "num" /\ num.n >= 0 THEN num ELSE Null
        notna == dias_num.k = "num"
    IN IF notna /\ dias_num.n <= Days(2) THEN "OK"
       ELSE IF notna /\ Days(3) < dias_num.n /\ dias_num.n <= Days(5) THEN "ATENCAO"
       ELSE IF notna /\ Days(6) < dias_num.n /\ dias_num.n <= Days(30) THEN "CRITICO"
       ELSE "SEM DADO"

classificar_status_series(c) ==
    LET num == to_numeric(c)
        dias_num == IF num.k = "num" /\ num.n >= 0 THEN num ELSE Null
        notna == dias_num.k = "num"
    IN IF notna /\ dias_num.n <= Days(2) THEN "OK"
       ELSE IF notna /\ Between(dias_num.n, Days(3), Days(5)) THEN "ATENCAO"
       ELSE IF notna /\ Between(dias_num.n, Days(6), Days(30)) THEN "CRITICO"
       ELSE "SEM DADO"

\* str.replace(r"(?i)^ok(?:ey)?$", "OK")
OkSpellings == {"OK", "Ok", "oK", "ok", "okey", "Okey", "OKEY"}
normalizar_ok(s) == IF s \in OkSpellings THEN "OK" ELSE s

\* pd.Categorical(categories=ORDEM_STATUS): any other value becomes missing.
Categorical(s) == IF \E i \in 1..Len(ORDEM_STATUS) : ORDEM_STATUS[i] = s THEN s ELSE "<NA>"

\* Lines 396-401: the "Status MIX" cell of a row of the status sheet.
StatusMixOf(c) ==
    Categorical(normalizar_ok(IF c.k # "nocol" THEN classificar_status_series(c) ELSE "SEM DADO"))

\* ---------------------------------------------------------- preparar_posicoes
Row(p, t, la, lo, d, c) ==
    [Prefixo |-> p, TipoPosicao |-> t, Latitude |-> la, Longitude |-> lo,
     DataMarcacao |-> d, Concessao |-> c]

\* pd.to_datetime(errors="coerce"): a number is an instant, a text is one when
\* it can be parsed.
to_datetime(c) ==
    CASE c.k = "num" -> c
      [] c.k = "text" /\ c.s = "2024-01-02" -> Num(2)
      [] OTHER -> Null

\* astype(str).str.upper()
Upper(s) ==
    CASE s = "mix" -> "MIX"
      [] s = "Mix" -> "MIX"
      [] s = "gps" -> "GPS"
      [] OTHER -> s
AsStr(c) == IF c.k = "text" THEN c.s ELSE IF c.k = "num" THEN "<digits>" ELSE "nan"
prefer_mix(r) == IF Upper(AsStr(r.TipoPosicao)) = "MIX" THEN 1 ELSE 0

\* The order of the vehicle identifiers of the model; a missing one sorts last.
PrefixOrder == <<"V1", "V2">>
PrefixRank(c) ==
    IF \E i \in 1..Len(PrefixOrder) : c = Text(PrefixOrder[i])
    THEN CHOOSE i \in 1..Len(PrefixOrder) : c = Text(PrefixOrder[i])
    ELSE Len(PrefixOrder) + 1

\* sort_values(["Prefixo", "DataMarcacao", "prefer_mix"], ascending=[True, False, False])
Before(a, b) ==
    \/ PrefixRank(a.Prefixo) < PrefixRank(b.Prefixo)
    \/ /\ PrefixRank(a.Prefixo) = PrefixRank(b.Prefixo)
       /\ \/ a.DataMarcacao.n > b.DataMarcacao.n
          \/ /\ a.DataMarcacao.n = b.DataMarcacao.n
             /\ prefer_mix(a) > prefer_mix(b)

\* The sort is stable: a row goes after the rows it does not come before.
InsertRow(sorted, r) ==
    LET later == {i \in 1..Len(sorted) : Before(r, sorted[i])}
        at == IF later = {} THEN Len(sorted) + 1
              ELSE CHOOSE i \in later : \A j \in later : i <= j
    IN SubSeq(sorted, 1, at - 1) \o <<r>> \o SubSeq(sorted, at, Len(sorted))

RECURSIVE SortValues(_)
SortValues(rows) ==
    IF rows = <<>> THEN <<>>
    ELSE InsertRow(SortValues(SubSeq(rows, 1, Len(rows) - 1)), rows[Len(rows)])

RECURSIVE DropNaT(_)
DropNaT(rows) ==
    IF rows = <<>> THEN <<>>
    ELSE LET r == [Head(rows) EXCEPT !.DataMarcacao = to_datetime(@)]
         IN IF r.DataMarcacao.k = "null" THEN DropNaT(Tail(rows))
            ELSE <<r>> \o DropNaT(Tail(rows))

\* groupby("Prefixo").first(): per column, the first value of the group that
\* is not missing.
FirstValid(sorted, key, col) ==
    LET has == {i \in 1..Len(sorted) : sorted[i].Prefixo = key /\ sorted[i][col].k # "null"}
    IN IF has = {} THEN Null
       ELSE sorted[CHOOSE i \in has : \A j \in has : i <= j][col]

OutRow(p, la, lo, t, c) ==
    [Prefixo |-> p, Latitude |-> la, Longitude |-> lo, TipoPosicao |-> t, Concessao |-> c]

RECURSIVE GroupFirst(_, _, _)
GroupFirst(sorted, keys, withConc) ==
    IF keys = <<>> THEN <<>>
    ELSE LET key == Text(Head(keys))
         IN (IF \E i \in 1..Len(sorted) : sorted[i].Prefixo = key
             THEN << OutRow(key,
                            to_numeric(FirstValid(sorted, key, "Latitude")),
                            to_numeric(FirstValid(sorted, key, "Longitude")),
                            FirstValid(sorted, key, "TipoPosicao"),
                            IF withConc THEN FirstValid(sorted, key, "Concessao") ELSE NoColumn) >>
             ELSE <<>>)
            \o GroupFirst(sorted, Tail(keys), withConc)

preparar_posicoes(d) ==
    IF d.cols = "missing" THEN <<>>
    ELSE GroupFirst(SortValues(DropNaT(d.rows)), PrefixOrder, d.cols = "full")

\* ---------------------------------------------------------------- actions
ClassIdle == dias = Null /\ statusMix = ""
PosIdle == dados = [cols |-> "missing", rows |-> <<>>] /\ posicoes = None
UiIdle ==
    /\ df = <<>> /\ session_state = <<>> /\ f_conc = {} /\ f_recurso = {}
    /\ clicked = "" /\ grid_df = None /\ css = None

HttpConfigs == { Raw("\"", DATA_URL_DEFAULT) }
LocalConfigs ==
    { Raw("", LocalBase), Raw("'", LocalOdd), Raw("", LocalGone), Raw("", ARQUIVO) }
Configs == HttpConfigs \cup LocalConfigs \cup {Raw("", EmptyUrl)}

DATA_URL == get_data_url(config)

\* A locator that is not an HTTP one has no remote: the variable then keeps
\* one arbitrary value that nothing reads.
NoRemote == [etag |-> NoTok, last_modified |-> NoTok, ctype |-> "text/html", body |-> HtmlLogin]


\* The files a deployment starts with: none, or the ones an earlier run of the
\* program left after it fetched (or copied) the source as it is now.
StartFiles(url, r) ==
    {[dest |-> None, meta |-> None]}
    \cup (IF url = EmptyUrl THEN {}
          ELSE LET o == download_if_changed(url, None, None, r, NetUp, 0)
               IN IF o.raised THEN {} ELSE {[dest |-> o.dest, meta |-> o.meta]})

RefreshInit ==
    /\ config \in Configs
    /\ remote \in (IF _is_http(get_data_url(config)) THEN Remotes ELSE {NoRemote})
    /\ \E f \in StartFiles(get_data_url(config), remote) : dest = f.dest /\ metaFile = f.meta
    /\ clock = 0
    /\ last = NoCall
    /\ fresh = TRUE
    /\ changes = 0

Init == RefreshInit /\ ClassIdle /\ PosIdle /\ UiIdle

Call(op, force, n) ==
    /\ clock < MaxCalls
    /\ \E rep \in {atualizar_por_metadados(DATA_URL, force, dest, metaFile, remote, n, clock + 1)} :
       /\ clock' = clock + 1
       /\ dest' = rep.dest
       /\ metaFile' = rep.meta
       /\ last' = CallRecord(op, force, n, rep)
       /\ fresh' = TRUE
       /\ UNCHANGED <<config, remote, changes>>

\* Lines 367-370: the automatic check.  auto_check_update is cached for
\* AUTO_CHECK_MINUTES and time is not modelled: the step is a script run that
\* finds no fresh cache entry, which may be any script run.
AutoCheck ==
    /\ DATA_URL # EmptyUrl
    /\ \E n \in NetOutcomes : Call("auto", FALSE, n)
    /\ UNCHANGED <<classVars, posVars, uiVars>>

\* Lines 373-383: the "Atualizar agora" button.
ForceRefresh ==
    /\ \E n \in NetOutcomes : Call("force", TRUE, n)
    /\ UNCHANGED <<classVars, posVars, uiVars>>

\* The environment: the publisher replaces the remote file or its headers.
\* Two replacements with no call between them are one replacement, and a
\* replacement commutes with DeleteDest, so it is taken first (fresh).
RemoteChange ==
    /\ _is_http(DATA_URL)
    /\ fresh
    /\ changes < MaxChanges
    /\ clock < MaxCalls
    /\ \E r \in Remotes : r # remote /\ remote' = r
    /\ changes' = changes + 1
    /\ fresh' = FALSE
    /\ UNCHANGED <<config, dest, metaFile, clock, last>>
    /\ UNCHANGED <<classVars, posVars, uiVars>>

\* The environment: someone removes the cached spreadsheet.
DeleteDest ==
    /\ changes < MaxChanges
    /\ clock < MaxCalls
    /\ IsSome(dest)
    /\ dest' = None
    /\ changes' = changes + 1
    /\ fresh' = FALSE
    /\ UNCHANGED <<config, remote, metaFile, clock, last>>
    /\ UNCHANGED <<classVars, posVars, uiVars>>

Next == AutoCheck \/ ForceRefresh \/ RemoteChange \/ DeleteDest

Spec == Init /\ [][Next]_vars

\* ------------------------------------------------- the status classifier
\* One cell of the "Dias MIX" column, or no such column.
DiasCells ==
    { Num(n) : n \in (0 - Days(2))..Days(MaxAge) }
    \cup {Null, NoColumn, Text("abc"), Text("2"), Text("2.9")}

RefreshIdle ==
    /\ config = Raw("", EmptyUrl)
    /\ remote = NoRemote
    /\ dest = None
    /\ metaFile = None
    /\ clock = 0
    /\ last = NoCall
    /\ fresh = TRUE
    /\ changes = 0

InitClassify == RefreshIdle /\ PosIdle /\ UiIdle /\ dias \in DiasCells /\ statusMix = ""

Classify ==
    /\ statusMix = ""
    /\ statusMix' = StatusMixOf(dias)
    /\ UNCHANGED <<dias, refreshVars, posVars, uiVars>>

SpecClassify == InitClassify /\ [][Classify]_vars

\* ------------------------------------------------ the position resolution
PrefixoCells == {Text("V1"), Text("V2"), Null}
TipoCells == {Text("MIX"), Text("mix"), Text("GPS"), Null}
LatitudeCells == {Num(-235), Text("abc"), Null}
LongitudeCells == {Num(-466), Null}
DataCells == {Num(1), Num(2), Text("n/a")}
ConcessaoCells == {Text("ECO"), Null}

RowsOf(conc) ==
    { Row(p, t, la, lo, d, c) :
        p \in PrefixoCells, t \in TipoCells, la \in LatitudeCells,
        lo \in LongitudeCells, d \in DataCells, c \in conc }

\* A DadosGPS sheet of at most MaxRows rows: with the Concessao column, without
\* it, or without one of the columns the function needs.
InitPos ==
    /\ RefreshIdle /\ ClassIdle /\ UiIdle
    /\ \E cols \in {"full", "noconc", "missing"} :
       \E k \in 0..(IF cols = "missing" THEN 0 ELSE MaxRows) :
       \E rs \in [1..k -> RowsOf(IF cols = "full" THEN ConcessaoCells ELSE {NoColumn})] :
          dados = [cols |-> cols, rows |-> rs]
    /\ posicoes = None

PrepararPosicoes ==
    /\ posicoes = None
    /\ posicoes' = Some(preparar_posicoes(dados))
    /\ UNCHANGED <<dados, refreshVars, classVars, uiVars>>

SpecPos == InitPos /\ [][PrepararPosicoes]_vars

\* ------------------------------------------------------ the page: filters
\* Lines 403-405: a row of df, the status sheet merged with the positions.
UiRow(p, d, r, c) ==
    [Prefixo |-> p, DiasMIX |-> d, StatusMIX |-> StatusMixOf(d),
     DescricaoRecurso |-> r, Concessao |-> c]

HasColumn(rows, col) == \E i \in 1..Len(rows) : rows[i][col].k # "nocol"

\* sorted(df[col].dropna().unique())
Options(rows, col) ==
    {rows[i][col].s : i \in {j \in 1..Len(rows) : rows[j][col].k = "text"}}
concessoes(rows) == Options(rows, "Concessao")
recursos(rows) == Options(rows, "DescricaoRecurso")

\* Boolean indexing, df[mask]: the rows whose mask entry is true, in their order.
RECURSIVE SelectRows(_, _)
SelectRows(rows, mask) ==
    IF rows = <<>> THEN <<>>
    ELSE (IF Head(mask) THEN <<Head(rows)>> ELSE <<>>) \o SelectRows(Tail(rows), Tail(mask))

\* Series.isin(sel): a missing cell is in no selection.
IsIn(c, sel) == c.k = "text" /\ c.s \in sel

\* Lines 428-434: the status filter of the session, then the two multiselects.
ApplyFilters(rows, pie, recurso, conc) ==
    LET df1 == IF IsSome(pie)
               THEN SelectRows(rows, [i \in 1..Len(rows) |-> rows[i].StatusMIX = Get(pie)])
               ELSE rows
        df2 == IF recurso # {} /\ HasColumn(df1, "DescricaoRecurso")
               THEN SelectRows(df1, [i \in 1..Len(df1) |-> IsIn(df1[i].DescricaoRecurso, recurso)])
               ELSE df1
    IN IF conc # {} /\ HasColumn(df2, "Concessao")
       THEN SelectRows(df2, [i \in 1..Len(df2) |-> IsIn(df2[i].Concessao, conc)])
       ELSE df2

StatusRank(s) ==
    IF \E i \in 1..Len(ORDEM_STATUS) : ORDEM_STATUS[i] = s
    THEN CHOOSE i \in 1..Len(ORDEM_STATUS) : ORDEM_STATUS[i] = s
    ELSE Len(ORDEM_STATUS) + 1

RecursoOrder == <<"R1", "R2">>
RecursoRank(c) ==
    IF \E i \in 1..Len(RecursoOrder) : c = Text(RecursoOrder[i])
    THEN CHOOSE i \in 1..Len(RecursoOrder) : c = Text(RecursoOrder[i])
    ELSE Len(RecursoOrder) + 1

\* sort_values(["Status MIX", "DescriçãoRecurso", "Prefixo"], na_position="last")
GridBefore(a, b) ==
    \/ StatusRank(a.StatusMIX) < StatusRank(b.StatusMIX)
    \/ /\ StatusRank(a.StatusMIX) = StatusRank(b.StatusMIX)
       /\ \/ RecursoRank(a.DescricaoRecurso) < RecursoRank(b.DescricaoRecurso)
          \/ /\ RecursoRank(a.DescricaoRecurso) = RecursoRank(b.DescricaoRecurso)
             /\ a.Prefixo.n < b.Prefixo.n

GridInsert(sorted, r) ==
    LET later == {i \in 1..Len(sorted) : GridBefore(r, sorted[i])}
        at == IF later = {} THEN Len(sorted) + 1
              ELSE CHOOSE i \in later : \A j \in later : i <= j
    IN SubSeq(sorted, 1, at - 1) \o <<r>> \o SubSeq(sorted, at, Len(sorted))

RECURSIVE GridSort(_)
GridSort(rows) ==
    IF rows = <<>> THEN <<>>
    ELSE GridInsert(GridSort(SubSeq(rows, 1, Len(rows) - 1)), rows[Len(rows)])

\* Lines 427-451: what column 1 shows for a filter and the two selections: the
\* sorted table, which is also the export, or nothing but a notice when no row
\* is left.
RenderTable(rows, pie, recurso, conc) ==
    LET df_f == ApplyFilters(rows, pie, recurso, conc)
    IN IF df_f = <<>> THEN None ELSE Some(GridSort(df_f))

\* Lines 457-468: the five buttons, in the order the script tests them.
StatusButtons == {"CRITICO", "ATENCAO", "OK", "SEM DADO"}
ClearButton == "Limpar filtro"
Buttons == StatusButtons \cup {ClearButton}

AfterButtons(pie, button) ==
    IF button \in StatusButtons THEN Some(button)
    ELSE IF button = ClearButton THEN None
    ELSE pie

\* Lines 407-408: the key is created with None on the session's first run.
pie_filter(ss) == IF ss = <<>> THEN None ELSE ss[1]

\* One run of the script from line 407 on, triggered by a click on button ("",
\* when another widget triggered it) with the multiselects at recurso and conc:
\* column 1 is rendered from the session's filter, then column 2 tests the
\* buttons and assigns the filter, then the style sheet is written again.
ScriptRun(button, recurso, conc) ==
    LET atTable == pie_filter(session_state)
        atEnd == AfterButtons(atTable, button)
    IN /\ df # <<>>
       /\ grid_df' = RenderTable(df, atTable, recurso, conc)
       /\ session_state' = <<atEnd>>
       /\ css' = atEnd
       /\ clicked' = button
       /\ f_recurso' = recurso
       /\ f_conc' = conc
       /\ UNCHANGED <<df, refreshVars, classVars, posVars>>

\* The first run of a session, or a run another widget triggered.
Rerun ==
    /\ clicked' = ""
    /\ ScriptRun("", f_recurso, f_conc)

\* The widgets exist once a run has drawn them.
ClickButton ==
    /\ session_state # <<>>
    /\ \E b \in Buttons : ScriptRun(b, f_recurso, f_conc)

SelectRecurso ==
    /\ session_state # <<>>
    /\ \E sel \in SUBSET recursos(df) : sel # f_recurso /\ ScriptRun("", sel, f_conc)

SelectConcessao ==
    /\ session_state # <<>>
    /\ \E sel \in SUBSET concessoes(df) : sel # f_conc /\ ScriptRun("", f_recurso, sel)

UiDias == {Num(Days(1)), Num(Days(4)), Num(Days(10)), Null}
UiRecursos == {Text("R1"), Text("R2")}
UiConcessoes == {Text("ECO"), Null}

\* A status table of at most MaxVehicles vehicles, with or without the
\* Concessao column; no script run yet, the multiselects at their defaults.
InitUi ==
    /\ RefreshIdle /\ ClassIdle /\ PosIdle
    /\ \E k \in 1..MaxVehicles :
       \E cs \in {UiConcessoes, {NoColumn}} :
       \E ds \in [1..k -> UiDias], rs \in [1..k -> UiRecursos], cc \in [1..k -> cs] :
          df = [i \in 1..k |-> UiRow(Num(100 + i), ds[i], rs[i], cc[i])]
    /\ session_state = <<>>
    /\ f_recurso = recursos(df)
    /\ f_conc = concessoes(df)
    /\ clicked = "" /\ grid_df = None /\ css = None

NextUi == Rerun \/ ClickButton \/ SelectRecurso \/ SelectConcessao

SpecUi == InitUi /\ [][NextUi]_vars

\* ================================================================ claims
\* Vocabulary of the refresher claims.
HttpLocator == _is_http(DATA_URL)
Configured == _strip_quotes(config)
IsCallStep == clock' = clock + 1
Called == last.op # "none" /\ fresh

\* The remote answered: the probe got the resource's headers and the full GET,
\* when one was issued, succeeded.
Reachable(c) == c.probe \in {"head", "ok"} /\ c.get \in {"none", "ok"}
PayloadValid(r) == _content_looks_excel(r.ctype, Take(r.body, 4))
HasValidator(r) == Truthy(r.etag) \/ Truthy(r.last_modified)
FailureMsg(c) == Len(c.msg) = 2 /\ c.msg[1] = "Falha ao atualizar: "

\* C1: a forced refresh of an HTTP locator whose remote is reachable issues a
\* full GET and rewrites the destination, whatever the persisted ETag or
\* Last-Modified (the rewrite being possible only for a payload that passes
\* validation).
C1_ForcedRefreshAlwaysFetches ==
    (Called /\ last.force /\ HttpLocator /\ Reachable(last))
        => /\ last.gets = 1
           /\ PayloadValid(remote) => (last.wrote /\ dest = Some(remote.body))

\* C1, the case: a forced refresh found the persisted validator unchanged.
C1_Witness ==
    /\ Called /\ last.force /\ HttpLocator /\ Reachable(last)
    /\ NotModified(last.modo)

C3_HtmlAlwaysRejected ==
    [][(/\ IsCallStep /\ HttpLocator /\ last'.get = "ok"
        /\ BeginsWithDoctype(remote.body))
          => /\ last'.raised
             /\ last'.msg = <<"Falha ao atualizar: ", "O link nao retornou um arquivo .xlsx">>
             /\ dest' = dest]_vars

\* What _content_looks_excel does ensure: the rejection, for every Content-Type
\* that does not name the spreadsheet MIME type.
C3_HtmlRejectedUnlessSheetMime ==
    [][(/\ IsCallStep /\ HttpLocator /\ last'.get = "ok"
        /\ BeginsWithDoctype(remote.body)
        /\ ~ContainsSheetMime(remote.ctype))
          => /\ last'.raised
             /\ last'.msg = <<"Falha ao atualizar: ", "O link nao retornou um arquivo .xlsx">>
             /\ dest' = dest]_vars

\* C3, the case: an HTML page declared as a spreadsheet was fetched.
C3_Witness ==
    /\ Called /\ HttpLocator /\ last.get = "ok"
    /\ BeginsWithDoctype(remote.body) /\ ContainsSheetMime(remote.ctype)

C8_LocalPathIsCopied ==
    [][(/\ IsCallStep
        /\ Configured # EmptyUrl /\ ~_is_http(Configured)
        /\ PathExists(Configured, dest))
          => /\ last'.probes = 0 /\ last'.gets = 0
             /\ IF Configured # ARQUIVO
                THEN dest' = Some(ReadPath(Configured, dest))
                ELSE dest' = dest /\ metaFile' = metaFile]_vars

\* C8, the case: a refresh ran with an existing local file configured.
C8_Witness ==
    /\ Called /\ Configured = LocalBase /\ last.raised

\* C10: whenever the refresh of an HTTP locator reports changed = True, the
\* destination file exists.
C10_ChangedImpliesDestination ==
    (Called /\ HttpLocator /\ last.changed) => IsSome(dest)

\* C10, the case: the destination was missing, the persisted validator matched.
C10_Witness ==
    /\ Called /\ HttpLocator /\ last.changed /\ Reachable(last)
    /\ NotModified(last.modo) /\ ~IsSome(dest)

\* ------------------------------------------------------ classifier claims
Classified == statusMix # ""
Tiers == {"OK", "ATENCAO", "CRITICO", "SEM DADO"}

\* The age a cell holds, in tenths of a day: <<>> when it holds none.
AgeOf(c) ==
    IF c.k = "num" THEN Some(c.n)
    ELSE IF c.k = "text" /\ ParseNumber(c.s).k = "num" THEN Some(ParseNumber(c.s).n)
    ELSE None
IsWholeAge(c) == IsSome(AgeOf(c)) /\ Get(AgeOf(c)) % 10 = 0

\* C5: exactly one of the four tiers is returned; for a whole number of days a
\* it is OK iff 0 <= a <= 2, ATENCAO iff 3 <= a <= 5, CRITICO iff 6 <= a <= 30,
\* and SEM DADO for a < 0, a > 30, a missing or a non-numeric cell.
C5_WholeAgesFallInTheirBand ==
    Classified =>
        /\ statusMix \in Tiers
        /\ IsWholeAge(dias) =>
             LET a == Get(AgeOf(dias)) \div 10
             IN /\ (statusMix = "OK") <=> (0 <= a /\ a <= 2)
                /\ (statusMix = "ATENCAO") <=> (3 <= a /\ a <= 5)
                /\ (statusMix = "CRITICO") <=> (6 <= a /\ a <= 30)
                /\ (statusMix = "SEM DADO") <=> (a < 0 \/ a > 30)
        /\ ~IsSome(AgeOf(dias)) => statusMix = "SEM DADO"

\* C5, the case: the upper boundary of the last band.
C5_Witness == Classified /\ dias = Num(Days(30)) /\ statusMix = "CRITICO"

\* C6: an age between two bands falls into the lower band (2 < a < 3
\* is OK, 5 < a < 6 is ATENCAO) and no age in [0, 30] is SEM DADO.
C6_GapsFallIntoLowerBand ==
    (Classified /\ IsSome(AgeOf(dias))) =>
        LET t == Get(AgeOf(dias))
        IN /\ (Days(2) < t /\ t < Days(3)) => statusMix = "OK"
           /\ (Days(5) < t /\ t < Days(6)) => statusMix = "ATENCAO"
           /\ (0 <= t /\ t <= Days(30)) => statusMix # "SEM DADO"

\* What np.select over the three conditions does: an age strictly between two
\* bands (2 < a < 3 or 5 < a < 6) is SEM DADO, and every other age in [0, 30]
\* is not.
C6_GapsAreSemDado ==
    (Classified /\ IsSome(AgeOf(dias))) =>
        LET t == Get(AgeOf(dias))
            inGap == (Days(2) < t /\ t < Days(3)) \/ (Days(5) < t /\ t < Days(6))
        IN /\ inGap => statusMix = "SEM DADO"
           /\ (0 <= t /\ t <= Days(30) /\ ~inGap) => statusMix # "SEM DADO"

\* C6, the case: 2.9 days were classified.
C6_Witness == Classified /\ dias = Num(29)

\* -------------------------------------------------------- position claims
Resolved == IsSome(posicoes)
Result == Get(posicoes)
Pos == DropNaT(dados.rows)
Vehicles == {Text(PrefixOrder[i]) : i \in 1..Len(PrefixOrder)}
GroupOf(v) == {i \in 1..Len(Pos) : Pos[i].Prefixo = v}
RecordsOf(v) == {i \in 1..Len(Result) : Result[i].Prefixo = v}

\* A raw row as a position record: its own fields, the coordinates coerced.
Project(r) ==
    OutRow(r.Prefixo, to_numeric(r.Latitude), to_numeric(r.Longitude), r.TipoPosicao,
           IF dados.cols = "full" THEN r.Concessao ELSE NoColumn)

\* The rows of v that carry its latest timestamp.
Latest(v) == {i \in GroupOf(v) : \A j \in GroupOf(v) : Pos[i].DataMarcacao.n >= Pos[j].DataMarcacao.n}

\* The first row of v's group in the sorted sheet.
FirstRowOf(v) ==
    LET sorted == SortValues(Pos)
        idx == {i \in 1..Len(sorted) : sorted[i].Prefixo = v}
    IN sorted[CHOOSE i \in idx : \A j \in idx : i <= j]

\* C7: every field of a resolved record comes from a row with the vehicle's
\* latest parseable timestamp, whatever the tags; and when one of the rows with
\* that timestamp is tagged MIX, the record's tag is MIX.
C7_TimestampFirstThenMix ==
    (Resolved /\ dados.cols # "missing") =>
        \A v \in Vehicles : \A i \in RecordsOf(v) :
            /\ \E j \in Latest(v) : Result[i].Latitude = Project(Pos[j]).Latitude
            /\ \E j \in Latest(v) : Result[i].Longitude = Project(Pos[j]).Longitude
            /\ \E j \in Latest(v) : Result[i].TipoPosicao = Project(Pos[j]).TipoPosicao
            /\ \E j \in Latest(v) : Result[i].Concessao = Project(Pos[j]).Concessao
            /\ (\E j \in Latest(v) : prefer_mix(Pos[j]) = 1)
                 => Upper(AsStr(Result[i].TipoPosicao)) = "MIX"

\* C7, the case: the latest row of a vehicle lacks a field an older row has.
C7_Witness ==
    /\ Resolved /\ Len(Pos) = 2
    /\ Pos[1].Prefixo = Text("V1") /\ Pos[2].Prefixo = Text("V1")
    /\ Pos[1].DataMarcacao.n > Pos[2].DataMarcacao.n
    /\ Pos[1].Latitude = Null /\ Pos[2].Latitude # Null

\* C9: at most one record per vehicle, and the record of a vehicle with a
\* parseable timestamp is, field by field, the first row of its group in the
\* sorted sheet, also where that row's latitude, longitude, tag or region is
\* missing.
C9_RecordIsOneWholeRow ==
    Resolved =>
        \A v \in Vehicles :
            /\ Cardinality(RecordsOf(v)) <= 1
            /\ (dados.cols # "missing" /\ GroupOf(v) # {})
                 => \E i \in RecordsOf(v) : Result[i] = Project(FirstRowOf(v))

\* C9, the case: the first row of a group lacks its region, a later row has one.
C9_Witness ==
    /\ Resolved /\ Len(Pos) = 2 /\ dados.cols = "full"
    /\ Pos[1].Prefixo = Text("V2") /\ Pos[2].Prefixo = Text("V2")
    /\ Pos[1].DataMarcacao.n = Pos[2].DataMarcacao.n
    /\ prefer_mix(Pos[1]) = 1 /\ prefer_mix(Pos[2]) = 0
    /\ Pos[1].Concessao = Null /\ Pos[2].Concessao # Null

\* ----------------------------------------------------------- filter claims
Rendered == session_state # <<>>

\* C11: after every script run, the table (and export) that run showed is the
\* table of the filter the session holds at the end of the run: after a click
\* on a status button only rows of that status, after "Limpar filtro" no
\* status filter.
C11_TableReflectsSelectedFilter ==
    Rendered =>
        grid_df = RenderTable(df, pie_filter(session_state), f_recurso, f_conc)

\* C11, the case: a click on CRITICO with vehicles of that status and of
\* another one in the table.
C11_Witness ==
    /\ Rendered /\ clicked = "CRITICO"
    /\ \E i, j \in 1..Len(df) : df[i].StatusMIX = "CRITICO" /\ df[j].StatusMIX = "OK"

====
